---- MODULE Spec2Model ----
(***************************************************************************)
(* Model of the dependency-availability resolution of roknus/conan-vscode: *)
(* one GET /packages request, from parse_conanfile's profile loading to    *)
(* the value it returns, for the two implementations the repository holds: *)
(*   "backend" : src/backend/routes/packages.py, src/backend/conan_utils.py*)
(*               and the pydantic models of                                *)
(*               src/backend/models/conan_models.py                        *)
(*   "legacy"  : src/conan_server.py and src/conan_utils.py                *)
(* The Conan collaborators (profiles, remote registry, credential check,   *)
(* graph builder, binary analyzer, catalog probes) are external: each call *)
(* is one step whose outcome is chosen nondeterministically.               *)
(***************************************************************************)
EXTENDS Integers, Sequences, FiniteSets, TLC

\* ------------------------------------------------------------------------
\* Bounds and universes
\* ------------------------------------------------------------------------

\* longest configured remote list that is explored
MaxRemotes == 2

\* Python's None
None == "None"

RemoteNames == {"acme", "conancenter", "corp"}

Impls == {"backend", "legacy"}

\* remote registries: lists of distinct remote names (the name is the key)
ConfiguredLists ==
    {s \in UNION {[1..n -> RemoteNames] : n \in 0..MaxRemotes} :
        \A i, j \in DOMAIN s : i # j => s[i] # s[j]}

\* the `remote` query parameter: absent, or a name (configured or not)
RequestedNames == RemoteNames \cup {None}

\* outcomes of check_credentials: success, NotFoundException, an
\* AuthenticationException (a ConanException), any exception that is not a
\* ConanException
CredOutcomes == {"ok", "notfound", "auth", "other"}

\* the global handle set by the startup: a ConanAPI object, or None when
\* its construction failed
Handles == {"ConanAPI", None}

\* the directory the server process was started in
StartDir == "/srv"

\* what a workspace directory holds of the two manifest names
Workspaces == {{}, {"conanfile.py"}}

\* outcomes of a catalog query (recipe_revisions / package_revisions):
\* a non-empty list, an empty list, an exception
ProbeOutcomes == {"found", "empty", "raise"}

\* ------------------------------------------------------------------------
\* Sequence helpers (Python list operations)
\* ------------------------------------------------------------------------

Range(s) == {s[i] : i \in DOMAIN s}

\* first index of x in s, 0 when absent
IndexOf(s, x) ==
    IF x \in Range(s) THEN CHOOSE i \in DOMAIN s : s[i] = x /\ \A j \in 1..(i-1) : s[j] # x
    ELSE 0

\* list.remove(x): drops the first element equal to x
ListRemove(s, x) ==
    LET p == IndexOf(s, x) IN
    IF p = 0 THEN s
    ELSE [i \in 1..(Len(s)-1) |-> IF i < p THEN s[i] ELSE s[i+1]]

\* ------------------------------------------------------------------------
\* pydantic models (BaseModel with the default configuration): a
\* constructor call is described by the Python type of each keyword
\* argument; unknown keywords are ignored, a missing required field or a
\* value of the wrong type raises ValidationError
\* ------------------------------------------------------------------------

Validate(schema, required, kwargs) ==
    /\ required \subseteq DOMAIN kwargs
    /\ \A f \in (DOMAIN kwargs) \cap (DOMAIN schema) : kwargs[f] \in schema[f]

PackageLocalStatus_schema ==
    [recipe_status |-> {"str"}, binary_status |-> {"str"}]

PackageRemoteStatus_schema ==
    [remote_name |-> {"str"}, recipe_status |-> {"str"}, binary_status |-> {"str"}]

PackageRemoteStatus_required == {"remote_name", "recipe_status", "binary_status"}

PackageAvailability_backend_schema ==
    [is_incompatible |-> {"bool"},
     incompatible_reason |-> {"str", None},
     local_status |-> {"PackageLocalStatus", None},
     remotes_status |-> {"list"}]

ConanPackage_backend_schema ==
    [name |-> {"str"}, version |-> {"str"}, ref |-> {"str"}, id |-> {"str"},
     availability |-> {"PackageAvailability"}, dependencies |-> {"list"}]

ConanPackage_backend_required == {"name", "version", "ref", "id", "availability"}

PackageAvailability_legacy_schema ==
    [is_incompatible |-> {"bool"},
     incompatible_reason |-> {"str", None},
     local_status |-> {"str"},
     remote_status |-> {"str"}]

ConanPackage_legacy_schema ==
    [name |-> {"str"}, version |-> {"str"}, ref |-> {"str"},
     availability |-> {"PackageAvailability"}, dependencies |-> {"list"}]

ConanPackage_legacy_required == {"name", "version", "ref", "availability"}

PackageAvailability_schema(i) ==
    IF i = "backend" THEN PackageAvailability_backend_schema
    ELSE PackageAvailability_legacy_schema

ConanPackage_schema(i) ==
    IF i = "backend" THEN ConanPackage_backend_schema ELSE ConanPackage_legacy_schema

ConanPackage_required(i) ==
    IF i = "backend" THEN ConanPackage_backend_required ELSE ConanPackage_legacy_required

\* ------------------------------------------------------------------------
\* Authentication check
\* ------------------------------------------------------------------------

\* a variant that does not treat NotFoundException as anonymous access
is_authenticated_backend_strict(c) ==
    CASE c = "ok"       -> [raised |-> FALSE, value |-> TRUE]
      [] c = "notfound" -> [raised |-> FALSE, value |-> FALSE]
      [] c = "auth"     -> [raised |-> FALSE, value |-> FALSE]
      [] OTHER          -> [raised |-> TRUE,  value |-> FALSE]

\* backend/conan_utils.py: NotFoundException -> True, ConanException ->
\* False, anything else propagates to the caller
is_authenticated_backend(c) ==
    CASE c = "ok"       -> [raised |-> FALSE, value |-> TRUE]
      [] c = "notfound" -> [raised |-> FALSE, value |-> TRUE]
      [] c = "auth"     -> [raised |-> FALSE, value |-> FALSE]
      [] OTHER          -> [raised |-> TRUE,  value |-> FALSE]

\* conan_utils.py: NotFoundException -> True, every other exception -> False
is_authenticated_legacy(c) ==
    CASE c = "ok"       -> [raised |-> FALSE, value |-> TRUE]
      [] c = "notfound" -> [raised |-> FALSE, value |-> TRUE]
      [] c = "auth"     -> [raised |-> FALSE, value |-> FALSE]
      [] OTHER          -> [raised |-> FALSE, value |-> FALSE]

is_authenticated(i, c) ==
    IF i = "backend" THEN is_authenticated_backend(c) ELSE is_authenticated_legacy(c)

\* ------------------------------------------------------------------------
\* Remote lookup of parse_conanfile
\* ------------------------------------------------------------------------

\* a variant that appends the fallback without comparing it to the request
SetUpRemotes_always_fallback(conf, name) ==
    IF name = None THEN [found |-> TRUE, remotes |-> conf]
    ELSE IF name \notin Range(conf) THEN [found |-> FALSE, remotes |-> <<>>]
    ELSE IF "conancenter" \in Range(conf)
         THEN [found |-> TRUE, remotes |-> <<name, "conancenter">>]
         ELSE [found |-> TRUE, remotes |-> <<name>>]

\* a variant that swallows the failed lookup and carries on with no remote
SetUpRemotes_swallow(conf, name) ==
    IF name = None THEN [found |-> TRUE, remotes |-> conf]
    ELSE IF name \notin Range(conf) THEN [found |-> TRUE, remotes |-> <<>>]
    ELSE IF name # "conancenter" /\ "conancenter" \in Range(conf)
         THEN [found |-> TRUE, remotes |-> <<name, "conancenter">>]
         ELSE [found |-> TRUE, remotes |-> <<name>>]

\* candidates: remotes.list() when no name is requested; otherwise
\* remotes.get(name), then remotes.get('conancenter') unless it is the
\* requested one (a missing conancenter is tolerated); found is FALSE when
\* remotes.get(name) raises
SetUpRemotes(conf, name) ==
    IF name = None THEN [found |-> TRUE, remotes |-> conf]
    ELSE IF name \notin Range(conf) THEN [found |-> FALSE, remotes |-> <<>>]
    ELSE IF name # "conancenter" /\ "conancenter" \in Range(conf)
         THEN [found |-> TRUE, remotes |-> <<name, "conancenter">>]
         ELSE [found |-> TRUE, remotes |-> <<name>>]

\* ------------------------------------------------------------------------
\* The global Conan API handle
\* ------------------------------------------------------------------------

\* HTTPException(status_code=500, detail="Conan API not initialized")
NotInitialized == [kind |-> "http500", detail |-> "Conan API not initialized"]

\* dependencies/conan_deps.py: raises when the handle is unset
get_conan_api(h) ==
    IF h = None THEN [raised |-> TRUE, value |-> NotInitialized]
    ELSE [raised |-> FALSE, value |-> h]

\* a variant of the prologue that hands the handle on unchecked
RouteHandle_unguarded(h) == [raised |-> FALSE, value |-> h]

\* the prologue of a route: conan_api = get_conan_api(), then
\* `if conan_api is None: raise HTTPException(500, ...)`
RouteHandle(h) ==
    LET g == get_conan_api(h) IN
    IF g.raised THEN g
    ELSE IF g.value = None THEN [raised |-> TRUE, value |-> NotInitialized]
    ELSE g

\* ------------------------------------------------------------------------
\* Locating the manifest
\* ------------------------------------------------------------------------

\* HTTPException(status_code=404, detail="No conanfile found in workspace
\* directory: <workspace_path>")
NoConanfile ==
    [kind |-> "http404", detail |-> "No conanfile found in workspace directory"]

\* str() of that exception: "<status_code>: <detail>"
NoConanfileText == "404: " \o NoConanfile.detail

\* a variant that falls back to a default path instead of raising
find_conanfile_default(files) ==
    IF "conanfile.txt" \in files THEN [raised |-> FALSE, value |-> "conanfile.txt"]
    ELSE [raised |-> FALSE, value |-> "conanfile.py"]

\* conanfile.txt when it exists, else conanfile.py when it exists, else the
\* 404 exception
find_conanfile(files) ==
    IF "conanfile.txt" \in files THEN [raised |-> FALSE, value |-> "conanfile.txt"]
    ELSE IF "conanfile.py" \in files THEN [raised |-> FALSE, value |-> "conanfile.py"]
    ELSE [raised |-> TRUE, value |-> NoConanfile]

\* ------------------------------------------------------------------------
\* The dependency graphs handed back by the external graph builder
\* ------------------------------------------------------------------------

Nodes == {"A", "B"}

\* "leaves": root -> A, root -> B;  "chain": root -> A -> B;
\* "chain_hidden": root -> A -> B where B is not propagated to the root's
\* transitive_deps;  "none": a manifest without requirements;
\* "single": root -> A, used where one classified node is enough
Graphs == {"none", "leaves", "chain", "chain_hidden"}

\* root.edges of the consumer graph
RootEdges(g) ==
    CASE g = "none" -> <<>>
      [] g = "leaves" -> <<"A", "B">>
      [] OTHER -> <<"A">>

\* node.edges (destinations, in edge order)
Edges(g, n) ==
    IF g \in {"chain", "chain_hidden"} /\ n = "A" THEN <<"B">> ELSE <<>>

\* root.transitive_deps of the consumer graph: the direct requirements in
\* declaration order, then the requirements propagated from below
TransitiveDeps(g) ==
    CASE g = "none" -> <<>>
      [] g = "leaves" -> <<"A", "B">>
      [] g = "chain" -> <<"A", "B">>
      [] OTHER -> <<"A">>

\* Conan's state tags (conan.internal.graph.graph)
RECIPE_INCACHE == "Cache"

RECIPE_DOWNLOADED == "Downloaded"

BINARY_CACHE == "Cache"

BINARY_INVALID == "Invalid"

\* what a node carries after analysis: node.recipe, node.binary and
\* node.conanfile.info.invalid
TagChoices ==
    {[recipe |-> "Cache",      binary |-> "Cache",   invalid |-> None],
     [recipe |-> "Cache",      binary |-> "Invalid", invalid |-> "missing libfoo"],
     [recipe |-> "Downloaded", binary |-> "Invalid", invalid |-> "unsupported arch"],
     [recipe |-> None,         binary |-> None,      invalid |-> None]}

Unset == [recipe |-> "unset", binary |-> "unset", invalid |-> "unset"]

\* the recipes the local cache may hold when a request arrives
CacheContents == SUBSET Nodes

\* what a recipe tag says of the cache the graph builder found and of the
\* selected remotes: 'Cache' is given to a recipe found in the cache,
\* 'Downloaded' to one that was absent and has been fetched from a remote
TagPossible(t, n, held, rs) ==
    /\ t.recipe = RECIPE_INCACHE => n \in held
    /\ t.recipe = RECIPE_DOWNLOADED => (n \notin held /\ rs # <<>>)

\* the cache once the graph builder has resolved n with tag t
CacheAfter(t, n, held) ==
    IF t.recipe = RECIPE_DOWNLOADED THEN held \cup {n} ELSE held

\* ------------------------------------------------------------------------
\* State
\* ------------------------------------------------------------------------

VARIABLES
    impl,        \* which implementation serves the request
    configured,  \* the remote registry, in configured order
    remote_name, \* the `remote` query parameter
    graph,       \* the dependency graph of the manifest
    workspace,   \* the manifests present in the workspace directory
    conan_api,   \* the global Conan API handle
    pc,          \* position of the request in parse_conanfile
    remotes,     \* parse_conanfile's `remotes` list
    cands,       \* the copy remotes[:] iterated by the authentication loop
    ai,          \* position in cands
    cred,        \* outcome of check_credentials observed per remote in
                 \* the authentication loop
    di,          \* position in root.transitive_deps
    deps_graph,  \* the per-dependency graph: error flag and root.edges
    gi,          \* position in deps_graph.root.edges
    node_tags,   \* tags of the nodes of deps_graph
    stack,       \* frames of create_package_from_node, innermost last
    packages,    \* parse_conanfile's `packages` list
    response,    \* how the request ended
    called,      \* collaborator operations invoked so far in the request
    faults,      \* graph builder / analyzer failures met so far
    loop,        \* the remote loop of the innermost call: its node, the
                 \* probes it issued and the remotes a probe raised for
    last,        \* how the latest create_package_from_node call ended
    graph_args,  \* the arguments of the graph constructions requested so far
    cache,       \* the recipes held by the local cache
    replay,      \* "off": the request is followed alone; "record": the
                 \* collaborators' answers are kept for a second, identical
                 \* request; "replay": that second request
    seen,        \* the answers kept: collaborator call -> outcome
    first,       \* what the first of the two requests returned
    route,       \* the single-step handler that served the request, None
                 \* for GET /packages, /packages/install, /project/create
    cwd,         \* the working directory of the server process
    original_dir,\* test_package's local of that name
    worker       \* the worker thread that runs the non-async POST /new

vars == <<impl, configured, remote_name, graph, workspace, pc, remotes, cands, ai, cred,
          di, deps_graph, gi, node_tags, stack, packages, response, called, faults, loop, last,
          graph_args, cache, replay, seen, first, conan_api, route, cwd,
          original_dir, worker>>

inputs == <<impl, configured, remote_name, graph, workspace, conan_api>>

process == <<route, cwd, original_dir, worker>>

\* the state of parse_conanfile and of the walk, which the single-step
\* routes leave alone
parse_state == <<remotes, cands, ai, cred, di, deps_graph, gi, node_tags,
                 stack, packages, loop, last, graph_args, cache, replay,
                 seen, first>>

\* the worker thread before POST /new is handed to it; cwd_seen is the
\* working directory under which save_template ran
Idle == [pc |-> "idle", response |-> [kind |-> "pending", detail |-> None],
         cwd_seen |-> None]

Pending == [kind |-> "pending", detail |-> None]

NoGraph == [error |-> FALSE, edges |-> <<>>]

NoLoop == [node |-> None, probed |-> <<>>, raised |-> {}]

NoCall == [node |-> None, raised |-> FALSE, pkg |-> [name |-> None]]

NoAnswers == [k \in {} |-> None]

\* a collaborator call: operation, dependency whose graph is at hand, node,
\* remote (None where it does not apply)
Key(op, dep, n, r) == <<op, dep, n, r>>

\* the answer an unchanged environment gives to a repeated call: the same,
\* except that a recipe the first request fetched is now found in the cache
Again(op, o) ==
    IF op = "tag" /\ o.recipe = RECIPE_DOWNLOADED
    THEN [o EXCEPT !.recipe = RECIPE_INCACHE]
    ELSE o

\* outcome o may be given to call k, and is kept when answers are recorded
Answer(k, o) ==
    /\ (replay = "replay" /\ k \in DOMAIN seen) => o = Again(k[1], seen[k])
    /\ seen' = IF replay = "record" THEN (k :> o) @@ seen ELSE seen

\* the state before a request, the workspace drawn from W
InitOver(W) ==
    /\ impl \in Impls
    /\ configured \in ConfiguredLists
    /\ remote_name \in RequestedNames
    /\ graph \in Graphs
    /\ workspace \in W
    /\ conan_api \in Handles
    /\ route = None
    /\ cwd = StartDir
    /\ original_dir = None
    /\ worker = Idle
    /\ pc = "api"
    /\ remotes = <<>>
    /\ cands = <<>>
    /\ ai = 1
    /\ cred = [r \in RemoteNames |-> "unchecked"]
    /\ di = 1
    /\ deps_graph = NoGraph
    /\ gi = 1
    /\ node_tags = [n \in Nodes |-> Unset]
    /\ stack = <<>>
    /\ packages = <<>>
    /\ response = Pending
    /\ called = {}
    /\ faults = {}
    /\ loop = NoLoop
    /\ last = NoCall
    /\ graph_args = {}
    /\ cache \in CacheContents
    /\ replay = "off"
    /\ seen = NoAnswers
    /\ first = None

Init == InitOver(Workspaces)

\* the outer `except Exception` of parse_conanfile: HTTPException(500)
\* whose detail carries the message of the exception
Http500(cause) == [kind |-> "http500", detail |-> cause]

\* ------------------------------------------------------------------------
\* get_packages, up to the call of parse_conanfile
\* ------------------------------------------------------------------------

\* conan_api = get_conan_api() and the `is None` check that open
\* get_packages, install_packages and create_package; the legacy server
\* uses its global without a check
GetConanApi ==
    /\ pc = "api"
    /\ LET g == RouteHandle(conan_api) IN
         IF impl = "backend" /\ g.raised
         THEN pc' = "done" /\ response' = g.value
         ELSE pc' = "find" /\ response' = response
    /\ UNCHANGED <<inputs, remotes, cands, ai, cred, di, deps_graph, gi,
                   node_tags, stack, packages, called, faults, loop, last,
                   graph_args, cache, replay, seen, first, process>>

\* find_conanfile(workspace_path) inside get_packages' try: its exception
\* is caught by `except Exception` and replaced by a 500 whose detail
\* embeds str(e)
FindConanfile ==
    /\ pc = "find"
    /\ LET f == find_conanfile(workspace) IN
         IF f.raised
         THEN pc' = "done" /\ response' = Http500(NoConanfileText)
         ELSE pc' = "profiles" /\ response' = response
    /\ UNCHANGED <<inputs, remotes, cands, ai, cred, di, deps_graph, gi,
                   node_tags, stack, packages, called, faults, loop, last, graph_args,
                   cache, replay, seen, first, process>>

\* ------------------------------------------------------------------------
\* parse_conanfile, up to the consumer graph
\* ------------------------------------------------------------------------

\* a variant that notes the failed profile load and carries on
GetProfiles_deferred ==
    /\ pc = "profiles"
    /\ called' = called \cup {"get_profile"}
    /\ pc' = "remotes"
    /\ \E ok \in BOOLEAN :
         response' = IF ok THEN response ELSE Http500("get_profile")
    /\ UNCHANGED <<inputs, remotes, cands, ai, cred, di, deps_graph, gi,
                   node_tags, stack, packages, faults, loop, last, graph_args,
                   cache, replay, seen, first, process>>

\* profiles.get_profile for the host profile, then for the build profile
GetProfiles ==
    /\ pc = "profiles"
    /\ IF conan_api = None
       THEN \* None has no attribute `profiles`: AttributeError, caught by
            \* the outer `except Exception`
            /\ pc' = "done"
            /\ response' = Http500("AttributeError")
            /\ UNCHANGED <<called, seen>>
       ELSE /\ called' = called \cup {"get_profile"}
            /\ \E ok \in BOOLEAN :
                 /\ Answer(Key("get_profile", None, None, None), ok)
                 /\ IF ok THEN pc' = "remotes" /\ response' = response
                    ELSE pc' = "done" /\ response' = Http500("get_profile")
    /\ UNCHANGED <<inputs, remotes, cands, ai, cred, di, deps_graph, gi,
                   node_tags, stack, packages, faults, loop, last, graph_args,
                   cache, replay, first, process>>

\* "Set up remotes to check"
LookupRemotes ==
    /\ pc = "remotes"
    /\ LET r == SetUpRemotes(configured, remote_name) IN
         /\ called' = called \cup
                (IF remote_name = None THEN {"remotes.list"} ELSE {"remotes.get"})
         /\ IF r.found
            THEN /\ remotes' = r.remotes
                 /\ cands' = r.remotes
                 /\ pc' = IF r.remotes = <<>> THEN "consumer" ELSE "auth"
                 /\ response' = response
            ELSE \* return PackageAvailability(recipe_status="error",
                 \*                            binary_status="error")
                 /\ UNCHANGED <<remotes, cands>>
                 /\ pc' = "done"
                 /\ response' =
                      IF Validate(PackageAvailability_schema(impl), {},
                                  [recipe_status |-> "str", binary_status |-> "str"])
                      THEN [kind |-> "returned_availability", detail |-> None]
                      ELSE Http500("ValidationError")
    /\ UNCHANGED <<inputs, ai, cred, di, deps_graph, gi, node_tags, stack,
                   packages, faults, loop, last, graph_args,
                   cache, replay, seen, first, process>>

\* a variant that iterates the list it shrinks: the element that follows a
\* removed one is skipped
NextCandidate_live(k, removed) == IF removed THEN k + 2 ELSE k + 1

\* `for remote in remotes[:]`: the loop runs over a copy, so a removal does
\* not move the iteration
NextCandidate(k, removed) == k + 1

\* one iteration of "Remove the remotes that are not authenticated"
CheckCredentials ==
    /\ pc = "auth"
    /\ called' = called \cup {"check_credentials"}
    /\ \E c \in CredOutcomes :
         LET r == cands[ai]
             res == is_authenticated(impl, c) IN
         /\ Answer(Key("check_credentials", None, None, r), c)
         /\ cred' = [cred EXCEPT ![r] = c]
         /\ IF res.raised
            THEN /\ pc' = "done"
                 /\ response' = Http500("check_credentials")
                 /\ UNCHANGED <<remotes, ai>>
            ELSE /\ remotes' = IF res.value THEN remotes ELSE ListRemove(remotes, r)
                 /\ ai' = NextCandidate(ai, ~res.value)
                 /\ pc' = IF ai' > Len(cands) THEN "consumer" ELSE "auth"
                 /\ response' = response
    /\ UNCHANGED <<inputs, cands, di, deps_graph, gi, node_tags, stack,
                   packages, faults, loop, last, graph_args,
                   cache, replay, first, process>>

\* the remotes and update arguments of load_graph_consumer
LoadGraphConsumer_args ==
    [op |-> "load_graph_consumer", remotes |-> remotes, update |-> None]

\* graph.load_graph_consumer(..., remotes=remotes, update=None)
LoadGraphConsumer ==
    /\ pc = "consumer"
    /\ called' = called \cup {"load_graph_consumer"}
    /\ graph_args' = graph_args \cup {LoadGraphConsumer_args}
    /\ \E ok \in BOOLEAN :
         /\ Answer(Key("load_graph_consumer", None, None, None), ok)
         /\ IF ~ok THEN pc' = "done" /\ response' = Http500("load_graph_consumer")
            ELSE IF TransitiveDeps(graph) = <<>>
                 THEN pc' = "done" /\ response' = [kind |-> "returned_list", detail |-> None]
                 ELSE pc' = "requires" /\ response' = response
    \* cred describes the authentication loop that has just ended
    /\ cred' = [r \in RemoteNames |-> "unchecked"]
    /\ UNCHANGED <<inputs, remotes, cands, ai, di, deps_graph, gi,
                   node_tags, stack, packages, faults, loop, last,
                   cache, replay, first, process>>

\* ------------------------------------------------------------------------
\* parse_conanfile, the loop over root.transitive_deps
\* ------------------------------------------------------------------------

ReturnedList == [kind |-> "returned_list", detail |-> None]

\* the loop moves to the next dependency, or parse_conanfile returns packages
AdvanceDep ==
    /\ di' = di + 1
    /\ IF di = Len(TransitiveDeps(graph))
       THEN pc' = "done" /\ response' = ReturnedList
       ELSE pc' = "requires" /\ response' = response

\* keyword arguments of the PackageAvailability built for a graph error
ErrorAvailability_call ==
    [is_incompatible |-> "bool", incompatible_reason |-> "str",
     local_status |-> "str", remote_status |-> "str"]

\* keyword arguments of the ConanPackage built for a graph error
ErrorPackage_call ==
    [name |-> "str", version |-> "str", ref |-> "str",
     availability |-> "PackageAvailability"]

\* text of deps_graph.error
GraphErrorText(dep) == "graph error"

\* the record appended when deps_graph.error is set
ErrorPackage(dep) ==
    [name |-> dep, is_incompatible |-> TRUE,
     incompatible_reason |-> GraphErrorText(dep),
     local_status |-> "none", remote_status |-> "none", dependencies |-> <<>>]

\* the remotes and update arguments of load_graph_requires
LoadGraphRequires_args ==
    [op |-> "load_graph_requires", remotes |-> remotes, update |-> <<"*">>]

\* graph.load_graph_requires(requires=[dep.ref], ..., update=["*"]) and the
\* `if deps_graph.error` block that follows it
LoadGraphRequires ==
    /\ pc = "requires"
    /\ called' = called \cup {"load_graph_requires"}
    /\ graph_args' = graph_args \cup {LoadGraphRequires_args}
    /\ node_tags' = [n \in Nodes |-> Unset]
    /\ gi' = 1
    /\ LET dep == TransitiveDeps(graph)[di] IN
       \E o \in {"ok", "error", "raise"} :
         CASE o = "raise" ->
                \* caught by the per-dependency `except Exception`
                /\ Answer(Key("load_graph_requires", dep, None, None), <<o, <<>>>>)
                /\ AdvanceDep
                /\ faults' = faults \cup {"load_graph_requires"}
                /\ UNCHANGED <<deps_graph, packages>>
           [] o = "ok" ->
                /\ Answer(Key("load_graph_requires", dep, None, None), <<o, <<dep>>>>)
                /\ deps_graph' = [error |-> FALSE, edges |-> <<dep>>]
                /\ pc' = "analyze"
                /\ UNCHANGED <<di, packages, response, faults>>
           [] OTHER ->
                \E e \in {<<>>, <<dep>>} :
                  /\ Answer(Key("load_graph_requires", dep, None, None), <<o, e>>)
                  /\ deps_graph' = [error |-> TRUE, edges |-> e]
                  /\ faults' = faults \cup {"deps_graph.error"}
                  /\ IF /\ Validate(PackageAvailability_schema(impl), {},
                                    ErrorAvailability_call)
                        /\ Validate(ConanPackage_schema(impl),
                                    ConanPackage_required(impl), ErrorPackage_call)
                     THEN /\ packages' = Append(packages, ErrorPackage(dep))
                          /\ pc' = "analyze"
                          /\ UNCHANGED <<di, response>>
                     ELSE \* ValidationError, caught per dependency
                          /\ AdvanceDep
                          /\ UNCHANGED packages
    /\ UNCHANGED <<inputs, remotes, cands, ai, cred, stack, loop, last,
                   cache, replay, first, process>>

\* graph.analyze_binaries(deps_graph, build_mode=['never'], ...)
AnalyzeBinaries ==
    /\ pc = "analyze"
    /\ called' = called \cup {"analyze_binaries"}
    /\ \E ok \in BOOLEAN :
         /\ Answer(Key("analyze_binaries", TransitiveDeps(graph)[di], None, None), ok)
         /\ faults' = IF ok THEN faults ELSE faults \cup {"analyze_binaries"}
         /\ IF ok /\ deps_graph.edges # <<>>
            THEN pc' = "walk" /\ UNCHANGED <<di, response>>
            ELSE AdvanceDep
    /\ UNCHANGED <<inputs, remotes, cands, ai, cred, deps_graph, gi, node_tags,
                   stack, packages, loop, last, graph_args,
                   cache, replay, first, process>>

\* ------------------------------------------------------------------------
\* create_package_from_node
\* ------------------------------------------------------------------------

Top == stack[Len(stack)]

SetTop(f) == [stack EXCEPT ![Len(stack)] = f]

\* str(node.recipe) if node.recipe else "unknown" (same for node.binary)
TagStr(t) == IF t = None THEN "unknown" ELSE t

\* "Determine simple flags for UI"
LocalStatus(recipe_status, binary_status) ==
    IF recipe_status = RECIPE_INCACHE
    THEN (IF binary_status = BINARY_CACHE THEN "recipe+binary" ELSE "recipe")
    ELSE "none"

\* is_incompatible = binary_status == BINARY_INVALID
IsIncompatible(binary_status) == binary_status = BINARY_INVALID

\* node.conanfile.info.invalid if is_incompatible else None
IncompatibleReason(t) ==
    IF IsIncompatible(TagStr(t.binary)) THEN t.invalid ELSE None

\* the frame of a call: the locals set up before the remote loop
NewFrame(n, t) ==
    [node |-> n,
     phase |-> IF remotes = <<>> THEN "deps" ELSE "recipe",
     local_status |-> LocalStatus(TagStr(t.recipe), TagStr(t.binary)),
     is_incompatible |-> IsIncompatible(TagStr(t.binary)),
     incompatible_reason |-> IncompatibleReason(t),
     ri |-> 1, rra |-> FALSE, rba |-> FALSE, remote_status |-> "none",
     remotes_status |-> <<>>,
     ei |-> 1, dependencies |-> <<>>]

\* the tags the graph may carry for the node of call k
TagAnswers(k) ==
    IF replay = "replay" /\ k \in DOMAIN seen
    THEN {Again("tag", seen[k])}
    ELSE TagChoices

\* a call of create_package_from_node: by parse_conanfile for an edge of
\* deps_graph.root, or by the walk itself for the next edge of a node
CallCreatePackage ==
    /\ pc = "walk"
    /\ \/ stack = <<>>
       \/ stack # <<>> /\ Top.phase = "deps" /\ Top.ei <= Len(Edges(graph, Top.node))
    /\ LET n == IF stack = <<>> THEN deps_graph.edges[gi]
                ELSE Edges(graph, Top.node)[Top.ei] IN
       \E t \in (IF node_tags[n] = Unset
                THEN TagAnswers(Key("tag", TransitiveDeps(graph)[di], n, None))
                ELSE {node_tags[n]}) :
         /\ node_tags[n] = Unset => TagPossible(t, n, cache, remotes)
         /\ Answer(Key("tag", TransitiveDeps(graph)[di], n, None), t)
         /\ cache' = IF node_tags[n] = Unset THEN CacheAfter(t, n, cache) ELSE cache
         /\ node_tags' = [node_tags EXCEPT ![n] = t]
         /\ stack' = Append(stack, NewFrame(n, t))
         /\ loop' = [node |-> n, probed |-> <<>>, raised |-> {}]
    /\ UNCHANGED <<inputs, pc, remotes, cands, ai, cred, di, deps_graph, gi,
                   packages, response, called, faults, last, graph_args,
                   replay, first, process>>

\* list.recipe_revisions(recipe_ref, remote) for the current remote
RecipeProbe ==
    /\ pc = "walk" /\ stack # <<>> /\ Top.phase = "recipe"
    /\ called' = called \cup {"recipe_revisions"}
    /\ LET f == Top
           r == remotes[f.ri]
           fresh == (impl = "backend") IN  \* flags are reset per iteration
       \E o \in ProbeOutcomes :
         /\ Answer(Key("recipe_revisions", TransitiveDeps(graph)[di], f.node, r), o)
         /\ stack' = SetTop([f EXCEPT
               !.rra = (o = "found") \/ (~fresh /\ f.rra),
               !.rba = ~fresh /\ f.rba,
               !.remote_status = IF fresh THEN "none" ELSE f.remote_status,
               !.phase = "binary"])
         /\ loop' = [loop EXCEPT
               !.probed = Append(@, <<r, "recipe">>),
               !.raised = IF o = "raise" THEN @ \cup {r} ELSE @]
    /\ UNCHANGED <<inputs, pc, remotes, cands, ai, cred, di, deps_graph, gi,
                   node_tags, packages, response, faults, last, graph_args,
                   cache, replay, first, process>>

\* the status string computed after the two probes
RemoteStatus(prev, rra, rba) ==
    IF rra THEN (IF rba THEN "recipe+binary" ELSE "recipe") ELSE prev

\* keyword arguments of PackageRemoteStatus(...) in the remote loop
PackageRemoteStatus_call == [remote_name |-> "str", status |-> "str"]

\* list.package_revisions(package_ref, remote) for the current remote and
\* the rest of the loop body
BinaryProbe ==
    /\ pc = "walk" /\ stack # <<>> /\ Top.phase = "binary"
    /\ called' = called \cup {"package_revisions"}
    /\ LET f == Top
           r == remotes[f.ri] IN
       \E o \in ProbeOutcomes :
         LET rba2 == f.rba \/ (o = "found")
             status == RemoteStatus(f.remote_status, f.rra, rba2)
             g == [f EXCEPT !.rba = rba2, !.remote_status = status]
             more == [g EXCEPT !.ri = @ + 1,
                               !.phase = IF f.ri = Len(remotes) THEN "deps"
                                         ELSE "recipe"] IN
         /\ Answer(Key("package_revisions", TransitiveDeps(graph)[di], f.node, r), o)
         /\ loop' = [loop EXCEPT
               !.probed = Append(@, <<r, "binary">>),
               !.raised = IF o = "raise" THEN @ \cup {r} ELSE @]
         /\ IF impl = "legacy"
            THEN stack' = SetTop(more)
            ELSE IF Validate(PackageRemoteStatus_schema,
                             PackageRemoteStatus_required, PackageRemoteStatus_call)
                 THEN stack' = SetTop([more EXCEPT !.remotes_status =
                             Append(@, [remote_name |-> r, status |-> status])])
                 ELSE \* ValidationError, caught by the `except Exception`
                      \* around the loop: the loop is over
                      stack' = SetTop([g EXCEPT !.phase = "deps"])
    /\ UNCHANGED <<inputs, pc, remotes, cands, ai, cred, di, deps_graph, gi,
                   node_tags, packages, response, faults, last, graph_args,
                   cache, replay, first, process>>

\* keyword arguments of PackageAvailability(...) at the end of the call
PackageAvailability_call(i, f) ==
    IF i = "backend"
    THEN [is_incompatible |-> "bool",
          incompatible_reason |-> IF f.is_incompatible THEN "str" ELSE None,
          local_status |-> "str", remotes_status |-> "list"]
    ELSE [is_incompatible |-> "bool",
          incompatible_reason |-> IF f.is_incompatible THEN "str" ELSE None,
          local_status |-> "str", remote_status |-> "str"]

\* keyword arguments of ConanPackage(...) at the end of the call
ConanPackage_call(i) ==
    IF i = "backend"
    THEN [name |-> "str", version |-> "str", ref |-> "str", id |-> "str",
          dependencies |-> "list", availability |-> "PackageAvailability"]
    ELSE [name |-> "str", version |-> "str", ref |-> "str",
          dependencies |-> "list", availability |-> "PackageAvailability"]

\* the record a call returns
MakePackage(i, f) ==
    IF i = "backend"
    THEN [name |-> f.node, is_incompatible |-> f.is_incompatible,
          incompatible_reason |-> f.incompatible_reason,
          local_status |-> f.local_status,
          remotes_status |-> f.remotes_status,
          dependencies |-> f.dependencies]
    ELSE [name |-> f.node, is_incompatible |-> f.is_incompatible,
          incompatible_reason |-> f.incompatible_reason,
          local_status |-> f.local_status,
          remote_status |-> f.remote_status,
          dependencies |-> f.dependencies]

NoPackage == [name |-> None]

\* the end of a call, once every edge has been walked: the records are
\* built and returned to the caller, or the ValidationError of a model
\* unwinds every frame up to parse_conanfile's per-dependency handler
BuildPackage ==
    /\ pc = "walk" /\ stack # <<>>
    /\ Top.phase = "deps" /\ Top.ei > Len(Edges(graph, Top.node))
    /\ LET f == Top
           pkg == MakePackage(impl, f)
           d == Len(stack) IN
       IF /\ Validate(PackageAvailability_schema(impl), {},
                      PackageAvailability_call(impl, f))
          /\ Validate(ConanPackage_schema(impl), ConanPackage_required(impl),
                      ConanPackage_call(impl))
       THEN /\ last' = [node |-> f.node, raised |-> FALSE, pkg |-> pkg]
            /\ IF d = 1
               THEN /\ packages' = Append(packages, pkg)
                    /\ stack' = <<>>
                    /\ IF gi = Len(deps_graph.edges)
                       THEN AdvanceDep /\ gi' = gi
                       ELSE gi' = gi + 1 /\ UNCHANGED <<pc, di, response>>
               ELSE /\ stack' = [SubSeq(stack, 1, d - 1) EXCEPT ![d - 1] =
                           [@ EXCEPT !.dependencies = Append(@, pkg),
                                     !.ei = @ + 1]]
                    /\ UNCHANGED <<packages, pc, di, gi, response>>
       ELSE /\ last' = [node |-> f.node, raised |-> TRUE, pkg |-> NoPackage]
            /\ stack' = <<>>
            /\ AdvanceDep
            /\ UNCHANGED <<packages, gi>>
    /\ loop' = NoLoop
    /\ UNCHANGED <<inputs, remotes, cands, ai, cred, deps_graph, node_tags,
                   called, faults, graph_args,
                   cache, replay, seen, first, process>>

\* ------------------------------------------------------------------------
\* The other endpoints that locate the manifest
\* ------------------------------------------------------------------------

\* the collaborator calls of install_packages, in order
InstallCalls ==
    <<"get_profile", "remotes.list", "load_graph_consumer", "analyze_binaries",
      "install_binaries">>

\* the collaborator calls of create_package, in order
CreateCalls ==
    <<"get_profile", "remotes.list", "export", "load_graph_requires",
      "analyze_binaries", "install_binaries">>

\* the calls issued when the k-th one raises (all of them when none does)
IssuedCalls(calls, k) ==
    {calls[j] : j \in 1..(IF k = 0 THEN Len(calls) ELSE k)}

\* POST /packages/install: `except HTTPException: raise` hands the 404 of
\* find_conanfile through; a ConanException and any other exception become
\* a 500
InstallPackages ==
    /\ pc = "find"
    /\ pc' = "done"
    /\ LET f == find_conanfile(workspace) IN
         IF f.raised
         THEN response' = f.value /\ called' = called
         ELSE \E k \in 0..Len(InstallCalls), e \in {"ConanException", "Exception"} :
                /\ called' = called \cup IssuedCalls(InstallCalls, k)
                /\ response' =
                     IF k = 0 THEN [kind |-> "returned", detail |-> "completed"]
                     ELSE IF e = "ConanException" THEN Http500("Conan API error")
                     ELSE Http500("Error during installation")
    /\ UNCHANGED <<inputs, remotes, cands, ai, cred, di, deps_graph, gi,
                   node_tags, stack, packages, faults, loop, last, graph_args,
                   cache, replay, seen, first, process>>

\* POST /project/create: every exception of the body, the 404 of
\* find_conanfile included, is replaced by a 500 "Create operation failed:
\* <str(e)>"
CreatePackage ==
    /\ pc = "find"
    /\ pc' = "done"
    /\ LET f == find_conanfile(workspace) IN
         IF f.raised
         THEN response' = Http500(NoConanfileText) /\ called' = called
         ELSE \E k \in 0..Len(CreateCalls) :
                /\ called' = called \cup IssuedCalls(CreateCalls, k)
                /\ response' =
                     IF k = 0 THEN [kind |-> "returned", detail |-> None]
                     ELSE Http500(CreateCalls[k])
    /\ UNCHANGED <<inputs, remotes, cands, ai, cred, di, deps_graph, gi,
                   node_tags, stack, packages, faults, loop, last, graph_args,
                   cache, replay, seen, first, process>>

\* ------------------------------------------------------------------------
\* Remotes, profiles, settings
\* ------------------------------------------------------------------------

Returned(what) == [kind |-> "returned", detail |-> what]

\* a route made of the prologue and a try block of collaborator calls, any
\* of which may raise: `except Exception` answers 500
Route(rt, calls, wrap) ==
    /\ pc = "api"
    /\ pc' = "done"
    /\ route' = rt
    /\ LET g == RouteHandle(conan_api) IN
         IF g.raised
         THEN response' = g.value /\ called' = called
         ELSE \E k \in 0..Len(calls) :
                /\ called' = called \cup IssuedCalls(calls, k)
                /\ response' = IF k = 0 THEN Returned(rt) ELSE Http500(wrap)
    /\ UNCHANGED <<inputs, parse_state, faults, cwd, original_dir, worker>>

\* GET /profiles
GetProfilesRoute ==
    Route("get_profiles", <<"profiles.list", "profiles.get_path">>,
          "Error getting profiles")

\* POST /profiles/create
CreateProfile ==
    Route("create_profile", <<"config.home">>, "Error creating profile")

\* POST /packages/install/package
InstallPackage ==
    Route("install_package",
          <<"get_profile", "remotes.list", "load_graph_requires",
            "analyze_binaries", "install_binaries">>,
          "Error during installation")

\* GET /remotes
GetRemotes == Route("get_remotes", <<"remotes.list">>, "Error getting remotes")

\* POST /remotes/login
LoginRemote ==
    Route("login_remote", <<"remotes.get", "remotes.user_login">>,
          "Error logging in to remote")

\* GET /settings
GetSettings == Route("get_settings", <<"config.home">>, "Error getting settings")

\* GET /config/home
GetConfigHome == Route("get_config_home", <<"config.home">>, "Error getting home")

\* POST /remotes/add: Remote(...), remotes.add(new_remote), then
\* is_authenticated(conan_api, new_remote); remotes.add refuses a name that
\* is already configured; every exception of the body answers 500
AddRemote ==
    /\ pc = "api"
    /\ pc' = "done"
    /\ route' = "remotes_add"
    /\ LET g == RouteHandle(conan_api) IN
         IF g.raised
         THEN response' = g.value /\ UNCHANGED <<called, configured>>
         ELSE \E name \in RemoteNames, added \in BOOLEAN, c \in CredOutcomes :
                /\ name \in Range(configured) => ~added
                /\ IF ~added
                   THEN /\ called' = called \cup {"remotes.add"}
                        /\ configured' = configured
                        /\ response' = Http500("Error adding remote")
                   ELSE /\ called' = called \cup {"remotes.add", "check_credentials"}
                        /\ configured' = Append(configured, name)
                        /\ LET a == is_authenticated(impl, c) IN
                             response' =
                               IF a.raised THEN Http500("Error adding remote")
                               ELSE IF a.value THEN Returned("requires_auth=False")
                               ELSE Returned("requires_auth=True")
    /\ UNCHANGED <<impl, remote_name, graph, workspace, conan_api,
                   parse_state, faults, cwd, original_dir, worker>>

\* POST /remotes/remove: remotes.remove(request.name)
RemoveRemote ==
    /\ pc = "api"
    /\ pc' = "done"
    /\ route' = "remotes_remove"
    /\ LET g == RouteHandle(conan_api) IN
         IF g.raised
         THEN response' = g.value /\ UNCHANGED <<called, configured>>
         ELSE \E name \in RemoteNames, ok \in BOOLEAN :
                /\ name \notin Range(configured) => ~ok
                /\ called' = called \cup {"remotes.remove"}
                /\ configured' = IF ok THEN ListRemove(configured, name)
                                 ELSE configured
                /\ response' = IF ok THEN Returned("remotes_remove")
                               ELSE Http500("Error removing remote")
    /\ UNCHANGED <<impl, remote_name, graph, workspace, conan_api,
                   parse_state, faults, cwd, original_dir, worker>>

\* ------------------------------------------------------------------------
\* Uploads
\* ------------------------------------------------------------------------

\* the reference named by an upload request
UploadRef == "A"

\* the collaborator calls of upload_local_package, in order
UploadCalls ==
    <<"remotes.get", "remotes.list", "get_profile", "list.select", "upload_full">>

\* HTTPException(status_code, detail)
HTTPException(status_code, detail) == [kind |-> status_code, detail |-> detail]

\* the outer handler of upload_local_package: `except Exception as e`
\* catches whatever left the body, an HTTPException included, and raises
\* HTTPException(500, f"Error uploading package: {e}")
UploadOuterExcept(e) == Http500("Error uploading package: " \o e.detail)

\* POST /packages/upload/local
UploadLocalPackage ==
    /\ pc = "api"
    /\ pc' = "done"
    /\ route' = "upload_local"
    /\ LET g == RouteHandle(conan_api) IN
         IF g.raised
         THEN response' = g.value /\ UNCHANGED <<called, faults>>
         ELSE \E k \in 0..Len(UploadCalls) :
                LET present == UploadRef \in cache
                    \* without recipes the 404 is raised before upload_full
                    upto == IF k \in {0, 5} /\ ~present THEN 4 ELSE k IN
                /\ called' = called \cup IssuedCalls(UploadCalls, upto)
                /\ faults' = IF k = 0 THEN faults ELSE faults \cup {UploadCalls[k]}
                /\ response' =
                     CASE k \in {1, 2} ->
                            UploadOuterExcept(HTTPException("exception", UploadCalls[k]))
                       [] k = 3 ->
                            UploadOuterExcept(HTTPException("http400", "Failed to load host profile"))
                       [] k = 4 ->
                            \* `except ConanException`, whose HTTPException
                            \* reaches the outer handler as well
                            UploadOuterExcept(Http500("Conan API error"))
                       [] ~present ->
                            UploadOuterExcept(HTTPException("http404", "Package not found in local cache"))
                       [] k = 5 ->
                            UploadOuterExcept(Http500("Conan API error"))
                       [] OTHER -> Returned("completed")
    /\ UNCHANGED <<inputs, parse_state, cwd, original_dir, worker>>

\* os.path.abspath(p) with the process in directory dir
abspath(dir, p) == dir \o "/" \o p

\* the legacy find_conanfile(): looks into the working directory
find_conanfile_cwd(files, dir) ==
    IF "conanfile.txt" \in files
    THEN [raised |-> FALSE, value |-> abspath(dir, "conanfile.txt")]
    ELSE IF "conanfile.py" \in files
    THEN [raised |-> FALSE, value |-> abspath(dir, "conanfile.py")]
    ELSE [raised |-> TRUE,
          value |-> HTTPException("http404", "No conanfile found in current directory")]

OnlyConanfilePy == "Only conanfile.py is supported for uploads, conanfile.txt found"

\* what upload_packages_task does before its loop over the requirements
UploadTaskCalls == <<"load_python_file", "remotes.get", "remotes.list", "get_profile">>

\* legacy POST /upload/missing with upload_packages_task: every exception
\* of the task is raised again as "Upload task failed: ..." and answered
\* with 500 "Upload failed: ..."; inside the loop a failure of one
\* requirement is swallowed
UploadMissing ==
    /\ pc = "api"
    /\ impl = "legacy"
    /\ pc' = "done"
    /\ route' = "upload_missing"
    /\ IF conan_api = None
       THEN response' = NotInitialized /\ called' = called
       ELSE LET f == find_conanfile_cwd(workspace, cwd) IN
            IF f.raised
            THEN /\ response' = Http500("Upload failed: Upload task failed: "
                                        \o f.value.detail)
                 /\ called' = called
            ELSE IF f.value # "conanfile.py"
            THEN /\ response' = Http500("Upload failed: Upload task failed: "
                                        \o OnlyConanfilePy)
                 /\ called' = called
            ELSE \E k \in 0..Len(UploadTaskCalls),
                    sent \in SUBSET (Range(RootEdges(graph)) \cap cache) :
                   IF k # 0
                   THEN /\ called' = called \cup IssuedCalls(UploadTaskCalls, k)
                        /\ response' = Http500("Upload failed: Upload task failed: "
                                               \o UploadTaskCalls[k])
                   ELSE /\ called' = called \cup Range(UploadTaskCalls)
                            \cup (IF RootEdges(graph) = <<>> THEN {}
                                  ELSE {"list.select"})
                            \cup (IF Range(RootEdges(graph)) \cap cache = {} THEN {}
                                  ELSE {"upload_full"})
                        /\ response' = Returned("completed")
    /\ UNCHANGED <<inputs, parse_state, faults, cwd, original_dir, worker>>

\* ------------------------------------------------------------------------
\* POST /project/test and POST /new
\* ------------------------------------------------------------------------

\* request.workspace_path
WorkspaceDir == "/workspace"

\* a variant of the finally clause that leaves the directory as it is
finally_chdir_skipped(original, current) == current

\* `finally: os.chdir(original_dir)`: the directory the process is in
\* afterwards; the directory the server was started in exists throughout
finally_chdir(original, current) == original

\* test_package up to the subprocess: the prologue, original_dir =
\* os.getcwd() and os.chdir(request.workspace_path), which fails for a path
\* that is no directory
TestPackageEnter ==
    /\ pc = "api"
    /\ impl = "backend"
    /\ route' = "project_test"
    /\ LET g == RouteHandle(conan_api) IN
         IF g.raised
         THEN /\ pc' = "done"
              /\ response' = g.value
              /\ UNCHANGED <<cwd, original_dir>>
         ELSE /\ original_dir' = cwd
              /\ \E ok \in BOOLEAN :
                   IF ok
                   THEN /\ cwd' = WorkspaceDir
                        /\ pc' = "test"
                        /\ response' = response
                   ELSE \* `except Exception`, then the finally clause
                        /\ cwd' = finally_chdir(cwd, cwd)
                        /\ pc' = "done"
                        /\ response' = Http500("Test operation failed: chdir")
    /\ UNCHANGED <<inputs, parse_state, called, faults, worker>>

\* subprocess.run(["conan", "test", ...]) in the workspace directory, the
\* handlers and the finally clause: the HTTPException(400) raised for a
\* non-zero return code is caught by `except Exception` like any other
TestPackageRun ==
    /\ pc = "test"
    /\ pc' = "done"
    /\ called' = called \cup {"subprocess.run"}
    /\ \E o \in {"zero", "nonzero", "raise"} :
         response' =
           CASE o = "zero" -> Returned("Test completed")
             [] o = "nonzero" -> Http500("Test operation failed: 400: Test failed")
             [] OTHER -> Http500("Test operation failed: subprocess")
    /\ cwd' = finally_chdir(original_dir, cwd)
    /\ UNCHANGED <<inputs, parse_state, faults, route, original_dir, worker>>

\* POST /new arrives: create_new_project is a plain `def`, so the event
\* loop, when it is not inside a handler, hands it to a worker thread
NewDispatch ==
    /\ worker.pc = "idle"
    /\ pc \in {"api", "done"}
    /\ worker' = [worker EXCEPT !.pc = "running"]
    /\ UNCHANGED <<inputs, pc, response, parse_state, called, faults, route,
                   cwd, original_dir>>

\* the worker thread runs create_new_project: everything raised in the
\* body, the HTTPException of the prologue included, becomes
\* HTTPException(500, detail=str(e))
NewRun ==
    /\ worker.pc = "running"
    /\ LET g == RouteHandle(conan_api) IN
         IF g.raised
         THEN /\ worker' = [pc |-> "done",
                            response |-> Http500("500: " \o g.value.detail),
                            cwd_seen |-> None]
              /\ called' = called
         ELSE /\ called' = called \cup {"new.save_template"}
              /\ \E ok \in BOOLEAN :
                   worker' = [pc |-> "done",
                              response |-> IF ok THEN Returned("completed")
                                           ELSE Http500("save_template"),
                              cwd_seen |-> cwd]
    /\ UNCHANGED <<inputs, pc, response, parse_state, faults, route, cwd,
                   original_dir>>

Next ==
    \/ GetConanApi
    \/ FindConanfile
    \/ GetProfiles
    \/ LookupRemotes
    \/ CheckCredentials
    \/ LoadGraphConsumer
    \/ LoadGraphRequires
    \/ AnalyzeBinaries
    \/ CallCreatePackage
    \/ RecipeProbe
    \/ BinaryProbe
    \/ BuildPackage

Spec == Init /\ [][Next]_vars

\* ------------------------------------------------------------------------
\* Specifications of parts of the system
\* ------------------------------------------------------------------------

\* the requests served by src/backend
InitBackend == Init /\ impl = "backend"

SpecBackend == InitBackend /\ [][Next]_vars

\* the requests served by the legacy src/conan_server.py
InitLegacy == Init /\ impl = "legacy"

SpecLegacy == InitLegacy /\ [][Next]_vars

\* the remote selection of a request, in both implementations: from the
\* profiles to the request for the consumer graph
NextSelect ==
    \/ GetConanApi
    \/ FindConanfile
    \/ GetProfiles
    \/ LookupRemotes
    \/ CheckCredentials
    \/ LoadGraphConsumer

SpecSelect == Init /\ [][NextSelect]_vars

\* a second GET /packages with the same manifest, profiles and remote name,
\* sent once the first one has been answered
Repeat ==
    /\ replay = "record"
    /\ pc = "done"
    /\ replay' = "replay"
    /\ first' = [response |-> response, packages |-> packages]
    /\ pc' = "api"
    /\ remotes' = <<>>
    /\ cands' = <<>>
    /\ ai' = 1
    /\ cred' = [r \in RemoteNames |-> "unchecked"]
    /\ di' = 1
    /\ deps_graph' = NoGraph
    /\ gi' = 1
    /\ node_tags' = [n \in Nodes |-> Unset]
    /\ stack' = <<>>
    /\ packages' = <<>>
    /\ response' = Pending
    /\ called' = {}
    /\ faults' = {}
    /\ loop' = NoLoop
    /\ last' = NoCall
    /\ graph_args' = {}
    /\ UNCHANGED <<inputs, cache, seen, process>>

\* two consecutive requests to the legacy server, one remote configured
InitTwice ==
    /\ impl = "legacy"
    /\ configured = <<"conancenter">>
    /\ remote_name = None
    /\ graph = "leaves"
    /\ workspace = {"conanfile.py"}
    /\ conan_api = "ConanAPI"
    /\ route = None
    /\ cwd = StartDir
    /\ original_dir = None
    /\ worker = Idle
    /\ pc = "api"
    /\ remotes = <<>>
    /\ cands = <<>>
    /\ ai = 1
    /\ cred = [r \in RemoteNames |-> "unchecked"]
    /\ di = 1
    /\ deps_graph = NoGraph
    /\ gi = 1
    /\ node_tags = [n \in Nodes |-> Unset]
    /\ stack = <<>>
    /\ packages = <<>>
    /\ response = Pending
    /\ called = {}
    /\ faults = {}
    /\ loop = NoLoop
    /\ last = NoCall
    /\ graph_args = {}
    /\ cache \in CacheContents
    /\ replay = "record"
    /\ seen = NoAnswers
    /\ first = None

NextTwice ==
    \/ Next
    \/ Repeat

SpecTwice == InitTwice /\ [][NextTwice]_vars

\* one request to the legacy server with every remote configured, the
\* answers of the collaborators kept
InitRecorded ==
    /\ impl = "legacy"
    /\ configured \in {c \in ConfiguredLists : Len(c) = MaxRemotes}
    /\ remote_name = None
    /\ graph = "single"
    /\ workspace = {"conanfile.py"}
    /\ conan_api = "ConanAPI"
    /\ route = None
    /\ cwd = StartDir
    /\ original_dir = None
    /\ worker = Idle
    /\ pc = "api"
    /\ remotes = <<>>
    /\ cands = <<>>
    /\ ai = 1
    /\ cred = [r \in RemoteNames |-> "unchecked"]
    /\ di = 1
    /\ deps_graph = NoGraph
    /\ gi = 1
    /\ node_tags = [n \in Nodes |-> Unset]
    /\ stack = <<>>
    /\ packages = <<>>
    /\ response = Pending
    /\ called = {}
    /\ faults = {}
    /\ loop = NoLoop
    /\ last = NoCall
    /\ graph_args = {}
    /\ cache = {}
    /\ replay = "record"
    /\ seen = NoAnswers
    /\ first = None

SpecRecorded == InitRecorded /\ [][Next]_vars

\* the endpoints that locate the manifest with find_conanfile
NextEndpoints ==
    \/ NextSelect
    \/ InstallPackages
    \/ CreatePackage

SpecEndpoints == Init /\ [][NextEndpoints]_vars

\* one request to any route of the backend server, with a POST /new that
\* may be in flight on the worker thread
NextRoutes ==
    \/ NextEndpoints
    \/ GetProfilesRoute
    \/ CreateProfile
    \/ InstallPackage
    \/ GetRemotes
    \/ LoginRemote
    \/ GetSettings
    \/ GetConfigHome
    \/ AddRemote
    \/ RemoveRemote
    \/ UploadLocalPackage
    \/ TestPackageEnter
    \/ TestPackageRun
    \/ NewDispatch
    \/ NewRun

SpecRoutes == InitBackend /\ [][NextRoutes]_vars

\* the manifests a workspace of an upload request may hold
UploadWorkspaces == SUBSET {"conanfile.txt", "conanfile.py"}

NextUpload ==
    \/ UploadLocalPackage
    \/ UploadMissing

\* one upload request to either server
SpecUpload == InitOver(UploadWorkspaces) /\ [][NextUpload]_vars

\* ------------------------------------------------------------------------
\* Properties
\* ------------------------------------------------------------------------

\* the credential check of r ended without an authentication failure
Succeeds(r) == cred[r] \in {"ok", "notfound"}

\* the authentication loop is over and the consumer graph not yet requested
Selected == pc = "consumer"

\* the request named a remote and remotes.get(name) raised
LookupFailed ==
    /\ remote_name # None
    /\ remote_name \notin Range(configured)
    /\ "remotes.get" \in called

GraphCalls ==
    {"load_graph_consumer", "load_graph_requires", "analyze_binaries"}

\* names of the top-level records
TopLevelNames == [i \in DOMAIN packages |-> packages[i].name]

\* C1: with an explicit remote name N other than conancenter, N and
\* conancenter both configured and both passing the credential check, the
\* selected remotes are exactly <<N, conancenter>>; with conancenter
\* requested (and passing the check) they are exactly <<conancenter>>.
C1_FallbackInclusion ==
    Selected =>
      /\ ( /\ remote_name \notin {None, "conancenter"}
           /\ remote_name \in Range(configured)
           /\ "conancenter" \in Range(configured)
           /\ Succeeds(remote_name) /\ Succeeds("conancenter") )
         => remotes = <<remote_name, "conancenter">>
      /\ ( /\ remote_name = "conancenter"
           /\ "conancenter" \in Range(configured)
           /\ Succeeds("conancenter") )
         => remotes = <<"conancenter">>

C1_Witness ==
    /\ Selected
    /\ remote_name = "acme"
    /\ Succeeds("acme") /\ Succeeds("conancenter")
    /\ remotes = <<"acme", "conancenter">>

\* C2: with no requested name, the selected remotes are exactly the
\* configured remotes whose credential check succeeded, in configured
\* order.
C2_AuthSubsequence ==
    (Selected /\ remote_name = None) => remotes = SelectSeq(configured, Succeeds)

C2_Witness ==
    /\ Selected /\ remote_name = None
    /\ Len(configured) = 2
    /\ ~Succeeds(configured[1]) /\ Succeeds(configured[2])
    /\ remotes = <<configured[2]>>

\* C3: a remote whose credential check raised an authentication failure is
\* taken as not authenticated and is absent from the selected remotes; one
\* whose check passed or raised "not found" is taken as authenticated and is
\* present.
C3_AuthFiltering ==
    \A r \in RemoteNames :
      /\ cred[r] = "auth" => r \notin Range(remotes)
      /\ cred[r] \in {"ok", "notfound"} => r \in Range(remotes)

C3_Witness ==
    /\ Selected
    /\ \E r1, r2 \in RemoteNames :
         /\ cred[r1] = "auth" /\ r1 \notin Range(remotes)
         /\ cred[r2] = "notfound" /\ r2 \in Range(remotes)

\* C4: whatever failure other than "not found" a credential check ends
\* with, the remote is dropped and the resolution goes on: the request is
\* never aborted by a credential check.
C4_AnyFailureDrops ==
    /\ response # Http500("check_credentials")
    /\ \A r \in RemoteNames : cred[r] \in {"auth", "other"} => r \notin Range(remotes)

\* C5: when the requested remote is not configured, the resolution ends
\* with an error, never by returning a value.
C5_UnknownRemoteFails ==
    (LookupFailed /\ pc = "done") => response.kind = "http500"

\* C6: after a failed lookup of the requested remote no graph is built and
\* no credential check is issued: load_graph_consumer, load_graph_requires,
\* analyze_binaries and check_credentials are never called.
C6_NoWorkAfterFailedLookup ==
    LookupFailed => called \cap (GraphCalls \cup {"check_credentials"}) = {}

C6_Witness ==
    /\ LookupFailed
    /\ pc = "done"
    /\ configured # <<>>

\* the remote loop of the innermost call has just ended
LoopEnded ==
    /\ stack # <<>>
    /\ Top.phase = "deps"
    /\ loop.node = Top.node

\* C7: when a probe for remote ri raises while a node is classified, the
\* remote loop is not cut short: once it is over, the probes of every later
\* remote have been issued and ri is reported with status "none".
C7_ProbeIsolation ==
    LoopEnded =>
      \A i \in DOMAIN remotes : remotes[i] \in loop.raised =>
        /\ \A j \in (i+1)..Len(remotes) :
             /\ <<remotes[j], "recipe">> \in Range(loop.probed)
             /\ <<remotes[j], "binary">> \in Range(loop.probed)
        /\ \E k \in DOMAIN Top.remotes_status :
             /\ Top.remotes_status[k].remote_name = remotes[i]
             /\ Top.remotes_status[k].status = "none"

\* C8: for a graph whose root has exactly two children, both leaves, a
\* resolution that met no graph failure returns exactly two top-level
\* records with empty dependency lists, in edge order.
C8_TreeShape ==
    ( /\ graph = "leaves"
      /\ pc = "done" /\ response = ReturnedList /\ faults = {} )
    => /\ TopLevelNames = RootEdges(graph)
       /\ \A i \in DOMAIN packages : packages[i].dependencies = <<>>

\* C9: the top-level list is exactly the direct children of the graph's
\* root, in edge order; a dependency reached only through another one is
\* nested, never an additional top-level entry.
C9_TopLevelIsRootChildren ==
    (pc = "done" /\ response = ReturnedList /\ faults = {})
    => TopLevelNames = RootEdges(graph)

\* C10: a classified node yields a record whose is_incompatible is true
\* exactly when the node's binary tag is 'invalid', whose
\* incompatible_reason is then the node's explanation verbatim, and is
\* absent otherwise.
C10_IncompatibilityPropagation ==
    (last.node # None /\ node_tags[last.node] # Unset) =>
      /\ ~last.raised
      /\ last.pkg.is_incompatible = (node_tags[last.node].binary = BINARY_INVALID)
      /\ last.pkg.incompatible_reason =
           IF node_tags[last.node].binary = BINARY_INVALID
           THEN node_tags[last.node].invalid ELSE None

\* names carried by a per-remote status sequence
StatusNames(rs) == [k \in DOMAIN rs |-> rs[k].remote_name]

\* C11: the per-remote status sequence built for a node has exactly one
\* entry per selected remote, in the order of the selected remote list, each
\* entry carrying that remote's name.
C11_OneEntryPerRemote ==
    LoopEnded => StatusNames(Top.remotes_status) = remotes

\* C12: classifying a node tagged recipe 'in cache' and binary 'in cache'
\* with an empty selected-remote list yields a record: its local status says
\* recipe and binary are in the cache, its remote list is empty and its
\* is_incompatible is false.
C12_CachedNodeNoRemotes ==
    ( /\ last.node # None
      /\ remotes = <<>>
      /\ node_tags[last.node] # Unset
      /\ node_tags[last.node].recipe = RECIPE_INCACHE
      /\ node_tags[last.node].binary = BINARY_CACHE )
    => /\ ~last.raised
       /\ last.pkg.local_status = "recipe+binary"
       /\ last.pkg.remotes_status = <<>>
       /\ last.pkg.is_incompatible = FALSE

\* the status string of a remote reports its binary as available
ReportsBinary(status) == status = "recipe+binary"

\* C13: for the first selected remote of a classified node, the binary probe
\* is issued whatever the recipe probe gave, and the status computed for
\* that remote reports the binary as available exactly when the binary probe
\* returned a non-empty result.
C13_BinaryProbeIndependent ==
    (LoopEnded /\ remotes # <<>>) =>
      /\ <<remotes[1], "binary">> \in Range(loop.probed)
      /\ ReportsBinary(Top.remote_status) <=> Top.rba

\* the profile load of the request failed
ProfileFailed == response = Http500("get_profile")

\* C15: when loading the host or the build profile fails, the resolution
\* ends with an error and no remote lookup, credential check or graph
\* construction occurs in that request.
C15_ProfileFailureFirst ==
    ProfileFailed =>
      /\ pc = "done"
      /\ called \cap ({"remotes.list", "remotes.get", "check_credentials"}
                      \cup GraphCalls) = {}

C15_Witness ==
    /\ ProfileFailed
    /\ "get_profile" \in called
    /\ configured # <<>>

\* C16: every graph construction of a resolution, the consumer graph and
\* each per-dependency graph, is requested with no forced update and with
\* the selected remotes.
C16_NoForcedUpdate ==
    \A q \in graph_args : q.update = None /\ q.remotes = remotes

\* C17: when the graph builder or the binary analyzer raised during a
\* resolution, for the consumer graph or for the graph of one dependency,
\* the request ends with an error; it never returns a package list.
C17_GraphFailureIsError ==
    ( /\ pc = "done"
      /\ \/ faults \cap {"load_graph_requires", "analyze_binaries"} # {}
         \/ response = Http500("load_graph_consumer") )
    => response.kind = "http500"

\* the workspace holds neither conanfile.txt nor conanfile.py
ManifestMissing == workspace \cap {"conanfile.txt", "conanfile.py"} = {}

\* C18: when the workspace holds no manifest, GET /packages fails before any
\* graph work starts: no profile load, remote lookup, credential check,
\* graph construction or binary analysis is issued in that request.
C18_ManifestMissingFirst ==
    (ManifestMissing /\ pc \notin {"api", "find"}) =>
      /\ pc = "done"
      /\ response.kind = "http500"
      /\ called = {}
      /\ graph_args = {}

C18_Witness ==
    /\ ManifestMissing
    /\ pc = "done"
    /\ configured # <<>>
    /\ graph # "none"

\* C20: when the workspace holds no manifest, every endpoint that locates it
\* with find_conanfile answers with find_conanfile's own failure: status 404
\* and the detail 'No conanfile found in workspace directory: <path>'.
C20_NotFoundUnchanged ==
    (ManifestMissing /\ pc = "done") => response = NoConanfile

\* C19: the local status reported for a node follows the content of the
\* local cache: a recipe is reported as locally present exactly when the
\* cache holds it, whatever the graph's state tag says.
C19_LocalStatusFollowsCache ==
    stack # <<>> => ((Top.local_status # "none") <=> (Top.node \in cache))

\* C14: the second of two consecutive resolutions with the same manifest,
\* profiles and remote name, unchanged remote contents and no external
\* change to the local cache returns what the first one returned.
C14_Idempotence ==
    (replay = "replay" /\ pc = "done") =>
      first = [response |-> response, packages |-> packages]

\* C22: the walk recurses into every edge's destination before it classifies
\* the node: whenever a recipe or binary probe of a node has been issued,
\* the records of all its children have already been computed.
C22_ChildrenBeforeProbes ==
    (pc = "walk" /\ stack # <<>> /\ loop.node = Top.node /\ loop.probed # <<>>)
    => Len(Top.dependencies) = Len(Edges(graph, Top.node))

\* the names of a record tree, children in order
RECURSIVE NamesTree(_)
NamesTree(pkg) ==
    <<pkg.name, [i \in DOMAIN pkg.dependencies |-> NamesTree(pkg.dependencies[i])]>>

\* the unfolding of graph g from node n: one entry per edge traversal
RECURSIVE Unfolding(_, _)
Unfolding(g, n) ==
    <<n, [i \in DOMAIN Edges(g, n) |-> Unfolding(g, Edges(g, n)[i])]>>

\* C23: the walk started at a node terminates with the record tree that
\* unfolds the graph from that node: one record per edge traversal, children
\* in edge order.
C23_OneRecordPerTraversal ==
    (last.node # None /\ stack = <<>>) =>
      /\ ~last.raised
      /\ NamesTree(last.pkg) = Unfolding(graph, last.node)

\* C24: for a dependency whose graph reports an error, the error record is
\* the only thing parse_conanfile contributes: neither the binary analysis
\* nor the node walk runs on the errored graph.
C24_ErrorRecordOnly ==
    deps_graph.error => pc \notin {"analyze", "walk"}

\* the probe op of the node being classified found something on remote r
Holds(r, op) ==
    LET k == Key(op, TransitiveDeps(graph)[di], Top.node, r) IN
    k \in DOMAIN seen /\ seen[k] = "found"

\* C25: in the legacy walk the remote_status of a node is 'recipe+binary'
\* only if one selected remote holds both the recipe and the binary, and
\* 'recipe' only if some selected remote holds the recipe.
C25_SameRemoteHoldsBoth ==
    (impl = "legacy" /\ replay = "record" /\ faults = {} /\ LoopEnded) =>
      /\ Top.remote_status = "recipe+binary" =>
            \E r \in Range(remotes) :
              Holds(r, "recipe_revisions") /\ Holds(r, "package_revisions")
      /\ Top.remote_status = "recipe" =>
            \E r \in Range(remotes) : Holds(r, "recipe_revisions")

\* C21: with the handle unset, the request fails with HTTP 500 "Conan API
\* not initialized" at its first step, POST /new fails with 500 as well, no
\* collaborator is called and the handle is never dereferenced.
C21_UnsetHandleFails ==
    conan_api = None =>
      /\ called = {}
      /\ pc # "api" => (pc = "done" /\ response = NotInitialized)
      /\ worker.pc = "done" =>
            /\ worker.response.kind = "http500"
            /\ worker.response.detail # "AttributeError"

C21_Witness ==
    /\ conan_api = None
    /\ pc = "done" /\ route = "remotes_add"
    /\ worker.pc = "done"

\* C26: POST /packages/upload/local answers 404 when the reference is not
\* in the local cache and 400 when the host profile cannot be loaded, and
\* upload_full is not called in either case.
C26_UploadLocalStatus ==
    (route = "upload_local" /\ pc = "done" /\ conan_api # None) =>
      /\ "get_profile" \in faults =>
            response.kind = "http400" /\ "upload_full" \notin called
      /\ ("list.select" \in called /\ faults = {} /\ UploadRef \notin cache) =>
            response.kind = "http404" /\ "upload_full" \notin called

\* C27: legacy POST /upload/missing is rejected with 'Only conanfile.py is
\* supported for uploads' only when the manifest found is conanfile.txt; a
\* workspace with conanfile.py alone is accepted.
C27_OnlyTxtRejected ==
    (route = "upload_missing" /\ pc = "done"
       /\ response = Http500("Upload failed: Upload task failed: " \o OnlyConanfilePy))
    => "conanfile.txt" \in workspace

\* C28: POST /remotes/add is all-or-nothing: a request answered with a
\* failure leaves the configured remotes as they were.
C28_AddAllOrNothing ==
    [][(route' = "remotes_add" /\ response'.kind = "http500")
         => configured' = configured]_vars

\* C29: when POST /project/test has finished, in whichever way, the
\* working directory of the process is the one it was before the request.
C29_CwdRestored ==
    (route = "project_test" /\ pc = "done") => cwd = StartDir

C29_Witness ==
    /\ route = "project_test" /\ pc = "done"
    /\ "subprocess.run" \in called
    /\ response.kind = "http500"
    /\ original_dir = StartDir /\ cwd = StartDir

\* C30: no other handler runs while POST /project/test has the working
\* directory changed: POST /new never runs save_template under a directory
\* other than the one the server was started in.
C30_NoHandlerInWindow ==
    /\ ~(pc = "test" /\ cwd # StartDir /\ worker.pc = "done" /\ worker.cwd_seen = cwd)
    /\ worker.cwd_seen \in {None, StartDir}

====
